---- MODULE Spec2Model ----
(***************************************************************************)
(* CryptoVerifier bot: the Telegram handlers (telegram-bot.ts), the three  *)
(* analysis workflows and the sendTelegramMessage capability (index.ts),   *)
(* and the process-wide state (shared-state.ts).                           *)
(*                                                                         *)
(* Every handler is an async function.  It runs without interruption up to *)
(* the next awaited remote call (bot.sendMessage, bot.deleteMessage,       *)
(* agent.createTask) and is resumed when that call returns or fails; other *)
(* handlers run in between.  One action of the model is one such           *)
(* uninterrupted piece; the outcome of the awaited call is the parameter   *)
(* ok of the action that resumes the handler.                              *)
(***************************************************************************)
EXTENDS Integers, Sequences, FiniteSets, TLC

\* ------------------------------------------------------------------ bounds
NumChats == 2    \* chats that write to the bot
NumIds == 2      \* distinct values generateShortUuid returns
MaxProcs == 2    \* invocations started in a behaviour of Spec
MaxChecks == 2   \* /check invocations in a behaviour of SpecDelivery
MaxCalls == 1    \* capability invocations in a behaviour of SpecDelivery
MaxRecorded == 6 \* analyses recorded before a behaviour of SpecHistory starts
MaxRequests == 2 \* invocations started in a behaviour of SpecHistory
MaxClassified == 1 \* /check invocations in a behaviour of SpecClassify

Chats == 1..NumChats
RequestIds == 1..NumIds
Max(S) == CHOOSE n \in S : \A m \in S : m <= n
Procs == 1..Max({MaxProcs, MaxChecks + MaxCalls, MaxRequests, MaxClassified})

\* `currentChatId: number | null = null`; a chat id is never 0, so the
\* falsy test `!chatId` is exactly the test for null.
Null == 0

VARIABLES
    currentChatId,  \* shared-state.ts: the active-chat pointer
    userSessions,   \* shared-state.ts: Map<chatId, UserSession>
    clock,          \* the wall clock read by `new Date()`
    tasks,          \* the tasks the remote platform has accepted, in order
    proc,           \* the handler invocations: their locals and position
    nprocs          \* number of handler invocations started so far

vars == <<currentChatId, userSessions, clock, tasks, proc, nprocs>>

\* ------------------------------------------------------------- text inputs
\* A text is a sequence of one-character strings.
Rep(ch, n) == [i \in 1..n |-> ch]

UrlText == <<"h","t","t","p",":","/","/","a",".","b">>
TokenText == <<"0","x">> \o Rep("a", 40)
ShortHexText == <<"0","x","1","2","3">>
PlainText == <<"h","i">>
BlankText == <<" ">>

IsSpace(ch) == ch \in {" ", "\t", "\n", "\r"}

RECURSIVE TrimLeft(_)
TrimLeft(s) ==
    IF s # <<>> /\ IsSpace(Head(s)) THEN TrimLeft(Tail(s)) ELSE s

RECURSIVE TrimRight(_)
TrimRight(s) ==
    IF s # <<>> /\ IsSpace(s[Len(s)])
    THEN TrimRight(SubSeq(s, 1, Len(s) - 1)) ELSE s

\* String.prototype.trim
Trim(s) == TrimRight(TrimLeft(s))

\* ---------------------------------------------------------- validators.ts
Alpha == {"a","b","c","d","e","f","g","h","i","j","k","l","m","n","o","p",
          "q","r","s","t","u","v","w","x","y","z",
          "A","B","C","D","E","F","G","H","I","J","K","L","M","N","O","P",
          "Q","R","S","T","U","V","W","X","Y","Z"}
Digit == {"0","1","2","3","4","5","6","7","8","9"}
HexDigit == Digit \cup {"a","b","c","d","e","f","A","B","C","D","E","F"}

\* Index of the first ":" of s, or 0.
ColonAt(s) ==
    IF \E i \in 1..Len(s) : s[i] = ":"
    THEN CHOOSE i \in 1..Len(s) : s[i] = ":" /\ \A j \in 1..(i - 1) : s[j] # ":"
    ELSE 0

Lower(ch) ==
    CASE ch = "H" -> "h" [] ch = "T" -> "t" [] ch = "P" -> "p" [] ch = "S" -> "s"
      [] ch = "F" -> "f" [] ch = "W" -> "w" [] ch = "I" -> "i" [] ch = "L" -> "l"
      [] ch = "E" -> "e" [] OTHER -> ch

SpecialSchemes ==
    { <<"h","t","t","p">>, <<"h","t","t","p","s">>, <<"f","t","p">>,
      <<"w","s">>, <<"w","s","s">> }

RECURSIVE SkipSlashes(_)
SkipSlashes(s) ==
    IF s # <<>> /\ Head(s) \in {"/", "\\"} THEN SkipSlashes(Tail(s)) ELSE s

\* The first position of s that holds a character of stops, or Len(s) + 1.
FirstIn(s, stops) ==
    CHOOSE e \in 1..(Len(s) + 1) :
        /\ e = Len(s) + 1 \/ s[e] \in stops
        /\ \A n \in 1..(e - 1) : s[n] \notin stops

\* The last position of s that holds "@", or 0.
LastAt(s) ==
    IF \E i \in 1..Len(s) : s[i] = "@"
    THEN CHOOSE i \in 1..Len(s) : s[i] = "@" /\ \A j \in (i + 1)..Len(s) : s[j] # "@"
    ELSE 0

DigitSeq == <<"0","1","2","3","4","5","6","7","8","9">>

RECURSIVE Number(_)
Number(s) ==
    IF s = <<>> THEN 0
    ELSE 10 * Number(SubSeq(s, 1, Len(s) - 1))
         + (CHOOSE n \in 0..9 : DigitSeq[n + 1] = s[Len(s)])

\* The port of a URL: digits, at most 2^16 - 1.
ValidPort(port) ==
    /\ \A i \in 1..Len(port) : port[i] \in Digit
    /\ Number(port) <= 65535

\* The forbidden host code points, of the characters a text here can hold.
ForbiddenHost == {" ", "#", "/", ":", "<", ">", "?", "@", "[", "\\", "]", "^", "|"}

\* The authority state, host state and port state of the URL parser:
\* credentials up to the last "@", the host up to the first ":", the port.
\* A special scheme needs a host; no scheme takes credentials or a port
\* without one.
ValidAuthority(authority, special) ==
    LET at == LastAt(authority)
        hostport == SubSeq(authority, at + 1, Len(authority))
        colon == FirstIn(hostport, {":"})
        host == SubSeq(hostport, 1, colon - 1)
        port == SubSeq(hostport, colon + 1, Len(hostport))
    IN  /\ host = <<>> => (~special /\ at = 0 /\ colon > Len(hostport))
        /\ \A i \in 1..Len(host) : host[i] \notin ForbiddenHost
        /\ ValidPort(port)

\* `new URL(text)` does not throw: the basic URL parser without a base URL.
\* Leading and trailing blanks are stripped and tabs and newlines removed;
\* the text needs a scheme (a letter, then letters, digits, "+", "-", ".")
\* and a ":"; after a special scheme any number of slashes, then an
\* authority with a host; after "file:" and after any other scheme an
\* authority only behind "//", and everything else is a path, which never
\* fails.  Hosts in brackets, with percent escapes or ending in a number
\* are not among the texts used here.
isUrl(text) ==
    LET s == SelectSeq(Trim(text), LAMBDA ch : ch \notin {"\t", "\n", "\r"})
        c == ColonAt(s)
    IN  /\ c > 1
        /\ s[1] \in Alpha
        /\ \A i \in 2..(c - 1) : s[i] \in Alpha \cup Digit \cup {"+", "-", "."}
        /\ LET scheme == [i \in 1..(c - 1) |-> Lower(s[i])]
               after == SubSeq(s, c + 1, Len(s))
               rest == SkipSlashes(after)
               behind == SubSeq(after, 3, Len(after))
           IN  IF scheme \in SpecialSchemes
               THEN ValidAuthority(
                        SubSeq(rest, 1, FirstIn(rest, {"/", "\\", "?", "#"}) - 1), TRUE)
               ELSE IF scheme = <<"f","i","l","e">>
               THEN (Len(after) >= 2 /\ after[1] \in {"/", "\\"} /\ after[2] \in {"/", "\\"}) =>
                        \A i \in 1..(FirstIn(behind, {"/", "\\", "?", "#"}) - 1) :
                            behind[i] \notin ForbiddenHost
               ELSE (Len(after) >= 2 /\ after[1] = "/" /\ after[2] = "/") =>
                        ValidAuthority(
                            SubSeq(behind, 1, FirstIn(behind, {"/", "?", "#"}) - 1), FALSE)

\* /^0x[a-fA-F0-9]{40}$/
isEthereumAddress(text) ==
    /\ Len(text) = 42
    /\ text[1] = "0"
    /\ text[2] = "x"
    /\ \A i \in 3..42 : text[i] \in HexDigit


\* ------------------------------------------------ containsScamPatterns
UpperCase == <<"A","B","C","D","E","F","G","H","I","J","K","L","M","N","O","P",
               "Q","R","S","T","U","V","W","X","Y","Z">>
LowerCase == <<"a","b","c","d","e","f","g","h","i","j","k","l","m","n","o","p",
               "q","r","s","t","u","v","w","x","y","z">>

ToLowerChar(ch) ==
    IF \E i \in 1..Len(UpperCase) : UpperCase[i] = ch
    THEN LowerCase[CHOOSE i \in 1..Len(UpperCase) : UpperCase[i] = ch]
    ELSE ch

\* String.prototype.toLowerCase
toLowerCase(s) == [i \in 1..Len(s) |-> ToLowerChar(s[i])]

\* The characters "." does not match, and \w, \s of a regular expression.
LineTerminator == {"\n", "\r"}
WordChar == {LowerCase[i] : i \in 1..Len(LowerCase)}
              \cup {UpperCase[i] : i \in 1..Len(UpperCase)} \cup Digit \cup {"_"}
IsWhite(ch) == ch \in {" ", "\t", "\n", "\r"}

\* The literal lit stands in s at position i.
LitAt(s, i, lit) ==
    /\ i >= 1
    /\ i + Len(lit) - 1 <= Len(s)
    /\ \A j \in 1..Len(lit) : s[i + j - 1] = lit[j]

\* \b holds between positions i-1 and i of s.
BoundaryAt(s, i) ==
    LET before == i > 1 /\ s[i - 1] \in WordChar
        after == i <= Len(s) /\ s[i] \in WordChar
    IN  before # after

\* ".*" can span s[i..j-1]: no line terminator in it.
DotStar(s, i, j) == \A n \in i..(j - 1) : s[n] \notin LineTerminator

\* The positions right after a match at i of one of the literals.
AltEnds(s, i, alts) == {i + Len(lit) : lit \in {a \in alts : LitAt(s, i, a)}}

\* The positions right after a match at i of \blit\b .
WordEnds(s, i, lit) ==
    IF LitAt(s, i, lit) /\ BoundaryAt(s, i) /\ BoundaryAt(s, i + Len(lit))
    THEN {i + Len(lit)} ELSE {}

Units == { <<"e","t","h">>, <<"b","t","c">>, <<"u","s","d","t">> }

\* The positions right after a match at i of \d+\s*(eth|btc|usdt) .
AmountEnds(s, i) ==
    {e \in (i + 1)..(Len(s) + 1) :
        \E d \in (i + 1)..e : \E u \in d..e :
            /\ \A n \in i..(d - 1) : s[n] \in Digit
            /\ \A n \in d..(u - 1) : IsWhite(s[n])
            /\ e \in AltEnds(s, u, Units)}

\* The ends of the matches of the k-th piece of a pattern at position i.
\* A pattern is a sequence of pieces joined by ".*".
PieceEnds(s, i, piece) ==
    CASE piece.type = "alt" -> AltEnds(s, i, piece.alts)
      [] piece.type = "word" -> WordEnds(s, i, piece.lit)
      [] piece.type = "amount" -> AmountEnds(s, i)

\* The pieces from the k-th on match s from some position at or after from,
\* with only "." characters skipped in between.
RECURSIVE ChainFrom(_, _, _, _)
ChainFrom(s, from, pieces, k) ==
    IF k > Len(pieces) THEN TRUE
    ELSE \E i \in from..(Len(s) + 1) :
            /\ DotStar(s, from, i)
            /\ \E e \in PieceEnds(s, i, pieces[k]) : ChainFrom(s, e, pieces, k + 1)

\* RegExp.prototype.test for a pattern without anchors.
Test(pieces, s) ==
    \E i \in 1..(Len(s) + 1) :
        \E e \in PieceEnds(s, i, pieces[1]) : ChainFrom(s, e, pieces, 2)

Alt(alts) == [type |-> "alt", alts |-> alts]
Word(lit) == [type |-> "word", lit |-> lit]
Amount == [type |-> "amount"]

scamPatterns ==
    << [pattern |-> << Alt({<<"s","e","n","d">>}), Amount,
                       Alt({<<"r","e","c","e","i","v","e">>}), Amount >>,
        description |-> "Send X to receive Y scam"],
       [pattern |-> << Alt({ <<"p","r","i","v","a","t","e"," ","k","e","y">>,
                             <<"r","e","c","o","v","e","r","y"," ","p","h","r","a","s","e">>,
                             <<"s","e","e","d"," ","p","h","r","a","s","e">> }) >>,
        description |-> "Asking for private key or seed phrase"],
       [pattern |-> << Alt({ <<"c","l","i","c","k">>, <<"v","i","s","i","t">>,
                             <<"c","h","e","c","k">> }),
                       Alt({<<"l","i","n","k">>}),
                       Alt({<<"t","o"," ","c","l","a","i","m">>}) >>,
        description |-> "Link to claim tokens/rewards"],
       [pattern |-> << Word(<<"w","h","i","t","e","l","i","s","t">>),
                       Word(<<"o","p","p","o","r","t","u","n","i","t","y">>) >>,
        description |-> "Suspicious whitelist opportunity"],
       [pattern |-> << Word(<<"u","p","g","r","a","d","e">>),
                       Word(<<"w","a","l","l","e","t">>) >>,
        description |-> "Suspicious wallet upgrade request"],
       [pattern |-> << Word(<<"a","i","r","d","r","o","p">>),
                       Word(<<"c","l","a","i","m">>),
                       Word(<<"c","o","n","n","e","c","t">>) >>,
        description |-> "Suspicious airdrop claim"],
       [pattern |-> << Word(<<"v","a","l","i","d","a","t","e">>),
                       Word(<<"w","a","l","l","e","t">>) >>,
        description |-> "Wallet validation scam"],
       [pattern |-> << Word(<<"m","i","g","r","a","t","e">>),
                       Word(<<"t","o","k","e","n">>) >>,
        description |-> "Token migration scam"] >>

RECURSIVE FoundPatterns(_, _)
FoundPatterns(lowerText, k) ==
    IF k > Len(scamPatterns) THEN <<>>
    ELSE (IF Test(scamPatterns[k].pattern, lowerText)
          THEN <<scamPatterns[k].description>> ELSE <<>>)
         \o FoundPatterns(lowerText, k + 1)

containsScamPatterns(text) ==
    LET foundPatterns == FoundPatterns(toLowerCase(text), 1)
    IN  [containsPatterns |-> Len(foundPatterns) > 0, patterns |-> foundPatterns]

ScamText == <<"s","e","e","d"," ","p","h","r","a","s","e">>

\* --------------------------------------- formatter.ts: Telegram MarkdownV2
\* U+2022, the bullet the list rules write.
Bullet == "U+2022"

\* U+0060, the backtick.
Backtick == "U+0060"

\* The character class of escapeChars: _ * [ ] ( ) ~ backtick > # + = | { } . ! -
Reserved == {"_", "*", "[", "]", "(", ")", "~", Backtick, ">", "#", "+", "=",
             "|", "{", "}", ".", "!", "-"}

\* escapeChars, applied to every line: "\n" is not reserved, so splitting at
\* "\n" and joining again changes nothing else.
RECURSIVE escapeChars(_)
escapeChars(str) ==
    IF str = <<>> THEN <<>>
    ELSE (IF Head(str) \in Reserved THEN <<"\\", Head(str)>> ELSE <<Head(str)>>)
         \o escapeChars(Tail(str))

\* "^" of a regular expression with the m flag matches at i.
AtLineStart(s, i) == i = 1 \/ s[i - 1] \in LineTerminator

\* The first position at or after i that holds a line terminator, or Len+1.
LineEnd(s, i) ==
    CHOOSE e \in i..(Len(s) + 1) :
        /\ e = Len(s) + 1 \/ s[e] \in LineTerminator
        /\ \A n \in i..(e - 1) : s[n] \notin LineTerminator

\* The first position at or after i that holds no white space, or Len+1.
WhiteEnd(s, i) ==
    CHOOSE e \in i..(Len(s) + 1) :
        /\ e = Len(s) + 1 \/ ~IsWhite(s[e])
        /\ \A n \in i..(e - 1) : IsWhite(s[n])

\* The first position at or after i that holds no digit, or Len+1.
DigitEnd(s, i) ==
    CHOOSE e \in i..(Len(s) + 1) :
        /\ e = Len(s) + 1 \/ s[e] \notin Digit
        /\ \A n \in i..(e - 1) : s[n] \in Digit

\* The positions j >= from of the same line where lit stands.
LaterAt(s, from, lit) ==
    {j \in from..Len(s) : LitAt(s, j, lit) /\ DotStar(s, from, j)}

Min(S) == CHOOSE x \in S : \A y \in S : x <= y

\* s.replace(/^PREFIX(.*$)/gm, '*$1*'), from position i on.
RECURSIVE ReplaceHeader(_, _, _)
ReplaceHeader(s, i, prefix) ==
    IF i > Len(s) THEN <<>>
    ELSE IF AtLineStart(s, i) /\ LitAt(s, i, prefix)
    THEN LET e == LineEnd(s, i + Len(prefix))
         IN  <<"*">> \o SubSeq(s, i + Len(prefix), e - 1) \o <<"*">>
                 \o ReplaceHeader(s, e, prefix)
    ELSE <<s[i]>> \o ReplaceHeader(s, i + 1, prefix)

\* s.replace(/DELIM(.*?)DELIM/g, 'MARK$1MARK'), from position i on.
RECURSIVE ReplacePair(_, _, _, _)
ReplacePair(s, i, delim, mark) ==
    IF i > Len(s) THEN <<>>
    ELSE IF LitAt(s, i, delim) /\ LaterAt(s, i + Len(delim), delim) # {}
    THEN LET j == Min(LaterAt(s, i + Len(delim), delim))
         IN  <<mark>> \o SubSeq(s, i + Len(delim), j - 1) \o <<mark>>
                 \o ReplacePair(s, j + Len(delim), delim, mark)
    ELSE <<s[i]>> \o ReplacePair(s, i + 1, delim, mark)

\* s.replace(/^\\-\s+/gm, BULLET + ' '), from position i on.
RECURSIVE ReplaceDash(_, _)
ReplaceDash(s, i) ==
    IF i > Len(s) THEN <<>>
    ELSE IF /\ AtLineStart(s, i)
            /\ LitAt(s, i, <<"\\", "-">>)
            /\ i + 2 <= Len(s)
            /\ IsWhite(s[i + 2])
    THEN <<Bullet, " ">> \o ReplaceDash(s, WhiteEnd(s, i + 2))
    ELSE <<s[i]>> \o ReplaceDash(s, i + 1)

\* s.replace(/^\d+\\\.\s+/gm, BULLET + ' '), from position i on.
RECURSIVE ReplaceNumber(_, _)
ReplaceNumber(s, i) ==
    IF i > Len(s) THEN <<>>
    ELSE LET d == DigitEnd(s, i)
         IN  IF /\ AtLineStart(s, i)
                /\ d > i
                /\ LitAt(s, d, <<"\\", ".">>)
                /\ d + 2 <= Len(s)
                /\ IsWhite(s[d + 2])
             THEN <<Bullet, " ">> \o ReplaceNumber(s, WhiteEnd(s, d + 2))
             ELSE <<s[i]>> \o ReplaceNumber(s, i + 1)

\* s.replace(/\\\[(.*?)\\\]\\\((.*?)\\\)/g, '[$1]($2)'), from position i on.
RECURSIVE ReplaceLink(_, _)
ReplaceLink(s, i) ==
    LET open == <<"\\", "[">>
        mid == <<"\\", "]", "\\", "(">>
        close == <<"\\", ")">>
        mids == {j \in LaterAt(s, i + Len(open), mid) :
                    LaterAt(s, j + Len(mid), close) # {}}
    IN  IF i > Len(s) THEN <<>>
        ELSE IF LitAt(s, i, open) /\ mids # {}
        THEN LET j == Min(mids)
                 k == Min(LaterAt(s, j + Len(mid), close))
             IN  <<"[">> \o SubSeq(s, i + Len(open), j - 1) \o <<"]", "(">>
                     \o SubSeq(s, j + Len(mid), k - 1) \o <<")">>
                     \o ReplaceLink(s, k + Len(close))
        ELSE <<s[i]>> \o ReplaceLink(s, i + 1)

\* The first position at or after i that holds no "\n", or Len+1.
NewlineEnd(s, i) ==
    CHOOSE e \in i..(Len(s) + 1) :
        /\ e = Len(s) + 1 \/ s[e] # "\n"
        /\ \A n \in i..(e - 1) : s[n] = "\n"

\* Variant: a run of three or more newlines becomes one newline.
RECURSIVE CollapseNewlinesToOne(_, _)
CollapseNewlinesToOne(s, i) ==
    IF i > Len(s) THEN <<>>
    ELSE LET e == NewlineEnd(s, i)
         IN  IF e - i >= 3
             THEN <<"\n">> \o CollapseNewlinesToOne(s, e)
             ELSE <<s[i]>> \o CollapseNewlinesToOne(s, i + 1)

\* s.replace(/\n{3,}/g, '\n\n'), from position i on.
RECURSIVE CollapseNewlines(_, _)
CollapseNewlines(s, i) ==
    IF i > Len(s) THEN <<>>
    ELSE LET e == NewlineEnd(s, i)
         IN  IF e - i >= 3
             THEN <<"\n", "\n">> \o CollapseNewlines(s, e)
             ELSE <<s[i]>> \o CollapseNewlines(s, i + 1)

convertToTelegramMarkdown(text) ==
    LET hash == <<"\\", "#">>
        star == <<"\\", "*">>
        under == <<"\\", "_">>
        s0 == escapeChars(text)
        s1 == ReplaceHeader(s0, 1, hash \o hash \o hash \o <<" ">>)
        s2 == ReplaceHeader(s1, 1, hash \o hash \o <<" ">>)
        s3 == ReplaceHeader(s2, 1, hash \o <<" ">>)
        s4 == ReplacePair(s3, 1, star \o star, "*")
        s5 == ReplacePair(s4, 1, under \o under, "*")
        s6 == ReplacePair(s5, 1, star, "_")
        s7 == ReplacePair(s6, 1, under, "_")
        s8 == ReplaceDash(s7, 1)
        s9 == ReplaceNumber(s8, 1)
        s10 == ReplaceLink(s9, 1)
    IN  CollapseNewlines(s10, 1)

\* message.replace(C, "") of the /history fallback, C the class of "*", "_"
\* and the backtick.
StripMarkup(s) == SelectSeq(s, LAMBDA ch : ch \notin {"*", "_", Backtick})

\* -------------------------------------------------------- shared-state.ts
\* Variant: the pointer keeps the first chat it was given.
setCurrentChatIdOnce(chatId) == IF currentChatId = Null THEN chatId ELSE currentChatId

setCurrentChatId(chatId) == chatId

\* Variant: an unset pointer reads as the first chat.
getCurrentChatIdDefault == IF currentChatId = Null THEN 1 ELSE currentChatId

getCurrentChatId == currentChatId

\* The map after updateUserSession(chatId, analysisDetails) has run on the
\* map sessions at time now.
SessionsAfterUpdate(sessions, chatId, analysisDetails, now) ==
    LET entry == [id |-> analysisDetails.id, type |-> analysisDetails.type,
                  content |-> analysisDetails.content, timestamp |-> now]
    IN  IF chatId \in DOMAIN sessions
        THEN [sessions EXCEPT
                 ![chatId].lastInteraction = now,
                 ![chatId].analyses = Append(@, entry)]
        ELSE sessions @@
                 (chatId :> [chatId |-> chatId, lastInteraction |-> now,
                             analyses |-> <<entry>>])

\* Variant: an analysis whose id and content are already recorded for the
\* chat is not recorded again.
updateUserSessionDedup(chatId, analysisDetails) ==
    IF /\ chatId \in DOMAIN userSessions
       /\ \E i \in 1..Len(userSessions[chatId].analyses) :
             /\ userSessions[chatId].analyses[i].id = analysisDetails.id
             /\ userSessions[chatId].analyses[i].content = analysisDetails.content
    THEN [userSessions EXCEPT ![chatId].lastInteraction = clock]
    ELSE SessionsAfterUpdate(userSessions, chatId, analysisDetails, clock)

\* Variant: the session is looked up under the active-chat pointer.
updateUserSessionByPointer(chatId, analysisDetails) ==
    SessionsAfterUpdate(userSessions,
                        IF currentChatId = Null THEN chatId ELSE currentChatId,
                        analysisDetails, clock)

\* updateUserSession(chatId, analysisDetails): the new value of the map.
updateUserSession(chatId, analysisDetails) ==
    SessionsAfterUpdate(userSessions, chatId, analysisDetails, clock)

getUserAnalysisHistory(chatId) ==
    IF chatId \in DOMAIN userSessions THEN userSessions[chatId].analyses ELSE <<>>

\* ------------------------------------------------- index.ts: the workflows
\* One element per createTask call of the function, in program order.  deps
\* holds the positions (within this invocation) of the tasks whose returned
\* ids are put in `dependencies`; reads are the artifact names in `input` and
\* `body`; output is the artifact named in `expectedOutput`.
\* Variant: the three research tasks chained, the report waiting for the last.
UrlWorkflowTasksChained ==
    << [assignee |-> "BRAVE_SEARCH", deps |-> <<>>, reads |-> {},
        output |-> "URL_SEARCH_DATA.json"],
       [assignee |-> "WEB_CONTENT_READER", deps |-> <<1>>, reads |-> {},
        output |-> "URL_CONTENT_DATA.json"],
       [assignee |-> "EXA_AGENT", deps |-> <<2>>, reads |-> {},
        output |-> "URL_DEEP_RESEARCH.json"],
       [assignee |-> "COPY_WRITER", deps |-> <<3>>,
        reads |-> {"URL_SEARCH_DATA.json", "URL_CONTENT_DATA.json",
                   "URL_DEEP_RESEARCH.json"},
        output |-> "URL_REPORT.md"],
       [assignee |-> "AGENT", deps |-> <<4>>, reads |-> {"URL_REPORT.md"},
        output |-> "none"] >>

UrlWorkflowTasks ==
    << [assignee |-> "BRAVE_SEARCH", deps |-> <<>>, reads |-> {},
        output |-> "URL_SEARCH_DATA.json"],
       [assignee |-> "WEB_CONTENT_READER", deps |-> <<1>>, reads |-> {},
        output |-> "URL_CONTENT_DATA.json"],
       [assignee |-> "EXA_AGENT", deps |-> <<1>>, reads |-> {},
        output |-> "URL_DEEP_RESEARCH.json"],
       [assignee |-> "COPY_WRITER", deps |-> <<2, 3>>,
        reads |-> {"URL_SEARCH_DATA.json", "URL_CONTENT_DATA.json",
                   "URL_DEEP_RESEARCH.json"},
        output |-> "URL_REPORT.md"],
       [assignee |-> "AGENT", deps |-> <<4>>, reads |-> {"URL_REPORT.md"},
        output |-> "none"] >>

\* Variant: the report waits for the reputation search only.
TokenWorkflowTasksOneDep ==
    << [assignee |-> "ETH_SCANNER", deps |-> <<>>, reads |-> {},
        output |-> "TOKEN_DATA.json"],
       [assignee |-> "BRAVE_SEARCH", deps |-> <<1>>, reads |-> {},
        output |-> "TOKEN_REPUTATION.json"],
       [assignee |-> "EXA_AGENT", deps |-> <<1>>, reads |-> {},
        output |-> "TOKEN_DEEP_RESEARCH.json"],
       [assignee |-> "COPY_WRITER", deps |-> <<2>>,
        reads |-> {"TOKEN_DATA.json", "TOKEN_REPUTATION.json",
                   "TOKEN_DEEP_RESEARCH.json"},
        output |-> "TOKEN_REPORT.md"],
       [assignee |-> "AGENT", deps |-> <<4>>, reads |-> {"TOKEN_REPORT.md"},
        output |-> "none"] >>

TokenWorkflowTasks ==
    << [assignee |-> "ETH_SCANNER", deps |-> <<>>, reads |-> {},
        output |-> "TOKEN_DATA.json"],
       [assignee |-> "BRAVE_SEARCH", deps |-> <<1>>, reads |-> {},
        output |-> "TOKEN_REPUTATION.json"],
       [assignee |-> "EXA_AGENT", deps |-> <<1>>, reads |-> {},
        output |-> "TOKEN_DEEP_RESEARCH.json"],
       [assignee |-> "COPY_WRITER", deps |-> <<2, 3>>,
        reads |-> {"TOKEN_DATA.json", "TOKEN_REPUTATION.json",
                   "TOKEN_DEEP_RESEARCH.json"},
        output |-> "TOKEN_REPORT.md"],
       [assignee |-> "AGENT", deps |-> <<4>>, reads |-> {"TOKEN_REPORT.md"},
        output |-> "none"] >>

\* Variant: the URL research is told to read the analysis of its sibling.
MessageWorkflowTasksSiblingRead ==
    << [assignee |-> "JSON_ANALYZER", deps |-> <<>>, reads |-> {},
        output |-> "MESSAGE_URLS.json"],
       [assignee |-> "EXA_AGENT", deps |-> <<1>>, reads |-> {},
        output |-> "MESSAGE_ANALYSIS.json"],
       [assignee |-> "BRAVE_SEARCH", deps |-> <<1>>,
        reads |-> {"MESSAGE_URLS.json", "MESSAGE_ANALYSIS.json"},
        output |-> "MESSAGE_URL_RESEARCH.json"],
       [assignee |-> "COPY_WRITER", deps |-> <<2, 3>>,
        reads |-> {"MESSAGE_ANALYSIS.json", "MESSAGE_URL_RESEARCH.json"},
        output |-> "MESSAGE_REPORT.md"],
       [assignee |-> "AGENT", deps |-> <<4>>, reads |-> {"MESSAGE_REPORT.md"},
        output |-> "none"] >>

MessageWorkflowTasks ==
    << [assignee |-> "JSON_ANALYZER", deps |-> <<>>, reads |-> {},
        output |-> "MESSAGE_URLS.json"],
       [assignee |-> "EXA_AGENT", deps |-> <<1>>, reads |-> {},
        output |-> "MESSAGE_ANALYSIS.json"],
       [assignee |-> "BRAVE_SEARCH", deps |-> <<1>>,
        reads |-> {"MESSAGE_URLS.json"},
        output |-> "MESSAGE_URL_RESEARCH.json"],
       [assignee |-> "COPY_WRITER", deps |-> <<2, 3>>,
        reads |-> {"MESSAGE_ANALYSIS.json", "MESSAGE_URL_RESEARCH.json"},
        output |-> "MESSAGE_REPORT.md"],
       [assignee |-> "AGENT", deps |-> <<4>>, reads |-> {"MESSAGE_REPORT.md"},
        output |-> "none"] >>

WorkflowTasks(wf) ==
    CASE wf = "url" -> UrlWorkflowTasks
      [] wf = "token" -> TokenWorkflowTasks
      [] wf = "message" -> MessageWorkflowTasks

\* The id the platform returns for the k-th createTask call of invocation p.
\* The platform's ids are opaque and never repeat.
TaskId(p, k) == (p - 1) * Len(UrlWorkflowTasks) + k

\* Variant: the task objects live in variables shared by all invocations,
\* so the ids are those the first invocation was given.
DependenciesShared(p, k) ==
    LET deps == WorkflowTasks(proc[p].wf)[k].deps
    IN  [i \in 1..Len(deps) |-> TaskId(1, deps[i])]

\* The ids a workflow puts in `dependencies` of its k-th task: the `.id` of
\* the task objects earlier calls of the same invocation returned.
Dependencies(p, k) ==
    LET deps == WorkflowTasks(proc[p].wf)[k].deps
    IN  [i \in 1..Len(deps) |-> proc[p].created[deps[i]]]

\* The argument of the k-th createTask call of invocation p and the id the
\* call returns.  `${requestId}_NAME` is the pair of the request id and NAME.
TaskRequest(p, k) ==
    LET t == WorkflowTasks(proc[p].wf)[k]
    IN  [id |-> TaskId(p, k),
         by |-> p,
         workflow |-> proc[p].wf,
         stage |-> k,
         assignee |-> t.assignee,
         subject |-> proc[p].content,
         contextInfo |-> proc[p].contextInfo,
         reads |-> {[id |-> proc[p].requestId, name |-> n] : n \in t.reads},
         output |-> [id |-> proc[p].requestId, name |-> t.output],
         dependencies |-> Dependencies(p, k)]

\* ------------------------------------------------------ handler invocations
Idle ==
    [kind |-> "none", pc |-> "idle", chat |-> Null, content |-> <<>>,
     requestId |-> Null, wf |-> "none", contextInfo |-> "none",
     issued |-> 0, calls |-> <<>>, created |-> <<>>, failed |-> 0,
     sent |-> <<>>, deletes |-> 0, throwing |-> FALSE, rejected |-> FALSE,
     target |-> Null, task |-> Null, result |-> "none", listing |-> <<>>,
     forwarded |-> FALSE, arrival |-> 0]

\* A chat message handed to the transport, and whether the transport took it.
Message(kind, to, mode, body, ok) ==
    [kind |-> kind, to |-> to, mode |-> mode, body |-> body, ok |-> ok]

Sent(p, msg) == Append(proc[p].sent, msg)

Started == 1..nprocs

\* Chat identifiers are opaque: the n-th distinct chat that writes to the
\* bot is named n.
KnownChats == {proc[p].chat : p \in Started} \ {Null}
NextChats == {c \in Chats : c <= Cardinality(KnownChats) + 1}

\* generateShortUuid returns the first five hexadecimal digits of a random
\* UUID, one of 16^5 values.  The n-th distinct value it returns is named
\* n; it may return a value it returned before.
KnownIds == {proc[p].requestId : p \in Started} \ {Null}
generateShortUuid == {i \in RequestIds : i <= Cardinality(KnownIds) + 1}

Init ==
    /\ currentChatId = Null
    /\ userSessions = << >>
    /\ clock = 1
    /\ tasks = {}
    /\ proc = [p \in Procs |-> Idle]
    /\ nprocs = 0

\* A new invocation takes the next slot; arrival numbers the update or call
\* that started it.
Start(rec) ==
    /\ nprocs + 1 \in Procs
    /\ proc' = [proc EXCEPT ![nprocs + 1] = [rec EXCEPT !.arrival = nprocs + 1]]
    /\ nprocs' = nprocs + 1

\* ------------------------------------------ telegram-bot.ts: bot.onText
\* The texts of a command message: the command, a blank, an argument.
CommandText(name, arg) == <<"/">> \o name \o <<" ">> \o arg

\* The starts of the matches in text of /\/name (.+)/ : the literal "/name "
\* with a character after it that "." matches.
MatchStarts(text, name) ==
    LET lit == <<"/">> \o name \o <<" ">>
    IN  {i \in 1..Len(text) :
            /\ LitAt(text, i, lit)
            /\ i + Len(lit) <= Len(text)
            /\ text[i + Len(lit)] \notin LineTerminator}

\* regexp.exec(msg.text) for /\/name (.+)/ : whether the callback is called,
\* and match[1], the rest of the line after the first match of the literal.
OnText(text, name) ==
    LET starts == MatchStarts(text, name)
    IN  IF starts = {} THEN [matched |-> FALSE, group |-> <<>>]
        ELSE LET i == CHOOSE n \in starts : \A m \in starts : n <= m
                 from == i + Len(name) + 2
             IN  [matched |-> TRUE,
                  group |-> SubSeq(text, from, LineEnd(text, from) - 1)]

\* --------------------------------------- telegram-bot.ts: the /check handler
CheckName == <<"c","h","e","c","k">>

CheckArgs == {UrlText, TokenText, PlainText, BlankText}

\* A /check command with an argument, with blanks for an argument, and
\* without an argument.
CheckTexts == {CommandText(CheckName, arg) : arg \in CheckArgs} \cup {<<"/">> \o CheckName}

\* A message with the text of a /check command arrives.  The callback of
\* bot.onText(/\/check (.+)/) runs, up to its first awaited send, only when
\* the expression matches; the 'message' handler returns at once for a text
\* that starts with "/" (lines 182-184).
CheckCallback(c, text) ==
    LET match == OnText(text, CheckName)
        contentToCheck == Trim(match.group)
    IN  [Idle EXCEPT !.kind = "check", !.chat = c,
                     !.content = contentToCheck,
                     !.pc = IF ~match.matched THEN "skipped"
                            ELSE IF contentToCheck = <<>>
                            THEN "usage" ELSE "checking"]

CheckCommand(c, text) ==
    /\ Start(CheckCallback(c, text))
    /\ UNCHANGED <<currentChatId, userSessions, clock, tasks>>

\* The usage hint of /check and /report is awaited outside any try block.
UsageDone(p, ok) ==
    /\ proc[p].pc = "usage"
    /\ proc' = [proc EXCEPT ![p].pc = "done",
                            ![p].sent = Sent(p, Message("usage", proc[p].chat, "none", <<>>, ok)),
                            ![p].rejected = ~ok]
    /\ UNCHANGED <<currentChatId, userSessions, clock, tasks, nprocs>>

\* Variant: no branch for addresses.
ClassifyTwoWay(content) ==
    IF isUrl(content) THEN "url" ELSE "message"

\* The branch of lines 79-99 the handler takes.
Classify(content) ==
    IF isUrl(content) THEN "url"
    ELSE IF isEthereumAddress(content) THEN "token"
    ELSE "message"

\* The `type` the branch passes to updateUserSession (lines 80, 87, 94).
RecordedType(branch) ==
    CASE branch = "url" -> "url"
      [] branch = "token" -> "token"
      [] branch = "message" -> "message"

\* The workflow function the branch calls (lines 84, 91, 98):
\* createUrlAnalysisWorkflow, createTokenAnalysisWorkflow,
\* createMessageAnalysisWorkflow.
WorkflowCalled(branch) ==
    CASE branch = "url" -> "url"
      [] branch = "token" -> "token"
      [] branch = "message" -> "message"

\* The "Checking" send returned: lines 72-95 up to the awaited acknowledgment.
CheckingDone(p, ok) ==
    /\ proc[p].pc = "checking"
    /\ LET msg == Message("checking", proc[p].chat, "none", <<>>, ok)
       IN  IF ~ok
           THEN /\ proc' = [proc EXCEPT ![p].pc = "done", ![p].sent = Sent(p, msg),
                                        ![p].rejected = TRUE]
                /\ UNCHANGED <<currentChatId, userSessions, clock>>
           ELSE \E requestId \in generateShortUuid :
                LET branch == Classify(proc[p].content)
                IN  /\ currentChatId' = setCurrentChatId(proc[p].chat)
                    /\ userSessions' = updateUserSession(proc[p].chat,
                           [id |-> requestId, type |-> RecordedType(branch),
                            content |-> proc[p].content])
                    /\ clock' = clock + 1
                    /\ proc' = [proc EXCEPT ![p].pc = "ack", ![p].sent = Sent(p, msg),
                                            ![p].requestId = requestId,
                                            ![p].wf = WorkflowCalled(branch)]
    /\ UNCHANGED <<tasks, nprocs>>

\* Variant: when the acknowledgment is rejected the handler takes the entry
\* of the request out of the session again.
AckDoneForgetting(p, ok) ==
    /\ proc[p].pc = "ack"
    /\ LET msg == Message("ack", proc[p].chat, "none", <<>>, ok)
           Others(e) == e.id # proc[p].requestId
       IN  /\ proc' = [proc EXCEPT ![p].sent = Sent(p, msg),
                                   ![p].pc = IF ok THEN "task" ELSE "herror",
                                   ![p].issued = IF ok THEN 1 ELSE 0,
                                   ![p].calls = IF ok THEN <<1>> ELSE <<>>]
           /\ userSessions' = IF ok THEN userSessions
                              ELSE [userSessions EXCEPT
                                       ![proc[p].chat].analyses = SelectSeq(@, Others)]
    /\ UNCHANGED <<currentChatId, clock, tasks, nprocs>>

\* The acknowledgment send returned: the workflow function is entered and
\* runs to its first createTask call, or the handler's catch block sends.
AckDone(p, ok) ==
    /\ proc[p].pc = "ack"
    /\ LET msg == Message("ack", proc[p].chat, "none", <<>>, ok)
       IN  proc' = [proc EXCEPT ![p].sent = Sent(p, msg),
                                ![p].pc = IF ok THEN "task" ELSE "herror",
                                ![p].issued = IF ok THEN 1 ELSE 0,
                                ![p].calls = IF ok THEN <<1>> ELSE <<>>]
    /\ UNCHANGED <<currentChatId, userSessions, clock, tasks, nprocs>>

\* Variant: the handler ends when the workflow function has returned.
AfterWorkflowNoDelete(p) == "done"

\* Where the handler goes when the workflow function has returned: the
\* finally block of /check issues the delete; the message handler ends.
AfterWorkflow(p) == IF proc[p].kind = "check" THEN "delete" ELSE "done"

\* Variant: the catch block of the workflow function throws the error on
\* after reporting it, so the handler's catch block reports it again.
WorkflowCatchRethrow(p, k) ==
    LET chatId == getCurrentChatId
        left == [proc[p] EXCEPT !.failed = k, !.pc = "herror"]
    IN  IF chatId # Null
        THEN {[left EXCEPT !.sent = Sent(p, Message("wferror", chatId, "none", <<>>, sok)),
                           !.rejected = ~sok] : sok \in BOOLEAN}
        ELSE {left}

\* Variant: the catch block issues the failed createTask call once more.
WorkflowCatchRetry(p, k) ==
    LET chatId == getCurrentChatId
        after == AfterWorkflow(p)
        left == [proc[p] EXCEPT !.failed = k, !.pc = after,
                                !.deletes = IF after = "delete" THEN @ + 1 ELSE @]
    IN  IF Cardinality({i \in 1..Len(proc[p].calls) : proc[p].calls[i] = k}) = 1
        THEN {[proc[p] EXCEPT !.calls = Append(@, k)]}
        ELSE IF chatId # Null
        THEN {[left EXCEPT !.sent = Sent(p, Message("wferror", chatId, "none", <<>>, sok)),
                           !.rejected = ~sok] : sok \in BOOLEAN}
        ELSE {left}

\* The catch block of a workflow function: the error message goes to the
\* chat the pointer names now, and the send is not awaited.  The result is
\* the set of records the invocation can be left in.
WorkflowCatch(p, k) ==
    LET chatId == getCurrentChatId
        after == AfterWorkflow(p)
        left == [proc[p] EXCEPT !.failed = k, !.pc = after,
                                !.deletes = IF after = "delete" THEN @ + 1 ELSE @]
    IN  IF chatId # Null
        THEN {[left EXCEPT !.sent = Sent(p, Message("wferror", chatId, "none", <<>>, sok)),
                           !.rejected = ~sok] : sok \in BOOLEAN}
        ELSE {left}

\* Variant: the catch block cancels what the invocation had submitted.
TasksAfterFailureRollback(p) == {t \in tasks : t.by # p}

\* The platform's tasks after the catch block of a workflow function: the
\* block makes no call to the platform.
TasksAfterFailure(p) == tasks

\* A createTask call of a workflow returned or failed (index.ts 124-252,
\* 270-391, 409-530).
CreateTaskDone(p, ok) ==
    /\ proc[p].pc = "task"
    /\ LET k == proc[p].issued
           t == TaskRequest(p, k)
           last == k = Len(WorkflowTasks(proc[p].wf))
           next == IF last THEN AfterWorkflow(p) ELSE "task"
       IN  IF ok
           THEN /\ tasks' = tasks \cup {t}
                /\ proc' = [proc EXCEPT ![p].created = Append(@, t.id),
                                        ![p].issued = IF last THEN k ELSE k + 1,
                                        ![p].calls = IF last THEN @ ELSE Append(@, k + 1),
                                        ![p].pc = next,
                                        ![p].deletes = IF next = "delete" THEN @ + 1 ELSE @]
           ELSE /\ tasks' = TasksAfterFailure(p)
                /\ \E left \in WorkflowCatch(p, k) : proc' = [proc EXCEPT ![p] = left]
    /\ UNCHANGED <<currentChatId, userSessions, clock, nprocs>>

\* The error message of a handler's own catch block returned.
HandlerErrorDone(p, ok) ==
    /\ proc[p].pc = "herror"
    /\ LET msg == Message("herror", proc[p].chat, "none", <<>>, ok)
       IN  IF proc[p].kind = "check"
           THEN proc' = [proc EXCEPT ![p].sent = Sent(p, msg), ![p].pc = "delete",
                                     ![p].deletes = @ + 1, ![p].throwing = ~ok]
           ELSE proc' = [proc EXCEPT ![p].sent = Sent(p, msg), ![p].pc = "done",
                                     ![p].rejected = ~ok]
    /\ UNCHANGED <<currentChatId, userSessions, clock, tasks, nprocs>>

\* bot.deleteMessage of the finally block returned; its failure is caught.
DeleteDone(p, ok) ==
    /\ proc[p].pc = "delete"
    /\ proc' = [proc EXCEPT ![p].pc = "done",
                            ![p].rejected = @ \/ proc[p].throwing]
    /\ UNCHANGED <<currentChatId, userSessions, clock, tasks, nprocs>>

\* ------------------------------- telegram-bot.ts: the 'message' handler
ForwardTexts == {PlainText, ScamText}

\* Variant: the workflow is called without the context note.
BeginForwardAnalysisNoNote(p, rec, requestId) ==
    /\ currentChatId' = setCurrentChatId(rec.chat)
    /\ userSessions' = updateUserSession(rec.chat,
           [id |-> requestId, type |-> "message", content |-> rec.content])
    /\ clock' = clock + 1
    /\ proc' = [proc EXCEPT ![p] =
                   [rec EXCEPT !.requestId = requestId, !.wf = "message",
                               !.issued = 1, !.calls = <<1>>, !.pc = "task"]]

\* Lines 207-213 of the message handler: up to the first createTask call
\* of createMessageAnalysisWorkflow(content, requestId, "Forwarded message").
BeginForwardAnalysis(p, rec, requestId) ==
    /\ currentChatId' = setCurrentChatId(rec.chat)
    /\ userSessions' = updateUserSession(rec.chat,
           [id |-> requestId, type |-> "message", content |-> rec.content])
    /\ clock' = clock + 1
    /\ proc' = [proc EXCEPT ![p] =
                   [rec EXCEPT !.requestId = requestId, !.wf = "message",
                               !.contextInfo = "Forwarded message",
                               !.issued = 1, !.calls = <<1>>, !.pc = "task"]]

\* bot.on('message') for a message that is no command and has a text or a
\* caption.  A message that was not forwarded is ignored.
MessageEvent(c, content, forwarded) ==
    /\ nprocs + 1 \in Procs
    /\ nprocs' = nprocs + 1
    /\ LET rec == [Idle EXCEPT !.kind = "message", !.chat = c, !.content = content,
                               !.forwarded = forwarded, !.arrival = nprocs + 1]
           quickCheckResult == containsScamPatterns(content)
       IN  IF ~forwarded
           THEN /\ proc' = [proc EXCEPT ![nprocs + 1] = [rec EXCEPT !.pc = "done"]]
                /\ UNCHANGED <<currentChatId, userSessions, clock>>
           ELSE IF quickCheckResult.containsPatterns
           THEN /\ proc' = [proc EXCEPT ![nprocs + 1] = [rec EXCEPT !.pc = "warn"]]
                /\ UNCHANGED <<currentChatId, userSessions, clock>>
           ELSE \E requestId \in generateShortUuid :
                    BeginForwardAnalysis(nprocs + 1, rec, requestId)
    /\ UNCHANGED tasks

\* The warning send returned.
WarnDone(p, ok) ==
    /\ proc[p].pc = "warn"
    /\ LET rec == [proc[p] EXCEPT
                      !.sent = Sent(p, Message("warning", proc[p].chat, "none", <<>>, ok))]
       IN  IF ok
           THEN \E requestId \in generateShortUuid : BeginForwardAnalysis(p, rec, requestId)
           ELSE /\ proc' = [proc EXCEPT ![p] = [rec EXCEPT !.pc = "herror"]]
                /\ UNCHANGED <<currentChatId, userSessions, clock>>
    /\ UNCHANGED <<tasks, nprocs>>

\* ------------------------------------ telegram-bot.ts: /start and /help
StartCallback(c) == [Idle EXCEPT !.kind = "start", !.chat = c, !.pc = "reply"]

HelpCallback(c) == [Idle EXCEPT !.kind = "help", !.chat = c, !.pc = "reply"]

StartCommand(c) ==
    /\ Start(StartCallback(c))
    /\ UNCHANGED <<currentChatId, userSessions, clock, tasks>>

HelpCommand(c) ==
    /\ Start(HelpCallback(c))
    /\ UNCHANGED <<currentChatId, userSessions, clock, tasks>>

\* The only send of /start or /help returned; nothing catches its failure.
ReplyDone(p, ok) ==
    /\ proc[p].pc = "reply"
    /\ proc' = [proc EXCEPT ![p].pc = "done",
                            ![p].sent = Sent(p, Message(proc[p].kind, proc[p].chat, "none", <<>>, ok)),
                            ![p].rejected = ~ok]
    /\ UNCHANGED <<currentChatId, userSessions, clock, tasks, nprocs>>

\* -------------------------------------------- telegram-bot.ts: /report
ReportName == <<"r","e","p","o","r","t">>

ReportArgs == {UrlText, BlankText}

ReportCommandTexts == {CommandText(ReportName, arg) : arg \in ReportArgs} \cup {<<"/">> \o ReportName}

\* A message with the text of a /report command arrives: the callback of
\* bot.onText(/\/report (.+)/) runs only when the expression matches.
ReportCallback(c, text) ==
    LET match == OnText(text, ReportName)
        contentToReport == Trim(match.group)
    IN  [Idle EXCEPT !.kind = "report", !.chat = c,
                     !.content = contentToReport,
                     !.pc = IF ~match.matched THEN "skipped"
                            ELSE IF contentToReport = <<>>
                            THEN "usage" ELSE "thanks"]

ReportCommand(c, text) ==
    /\ Start(ReportCallback(c, text))
    /\ UNCHANGED <<currentChatId, userSessions, clock, tasks>>

\* Variant: the report is handled like a request, the chat becomes the
\* active chat.
ThanksDoneRecording(p, ok) ==
    /\ proc[p].pc = "thanks"
    /\ proc' = [proc EXCEPT ![p].pc = IF ok THEN "done" ELSE "herror",
                            ![p].sent = Sent(p, Message("thanks", proc[p].chat, "none", <<>>, ok))]
    /\ currentChatId' = setCurrentChatId(proc[p].chat)
    /\ UNCHANGED <<userSessions, clock, tasks, nprocs>>

\* The acknowledgment of /report returned.
ThanksDone(p, ok) ==
    /\ proc[p].pc = "thanks"
    /\ proc' = [proc EXCEPT ![p].pc = IF ok THEN "done" ELSE "herror",
                            ![p].sent = Sent(p, Message("thanks", proc[p].chat, "none", <<>>, ok))]
    /\ UNCHANGED <<currentChatId, userSessions, clock, tasks, nprocs>>

\* ------------------------------------------- telegram-bot.ts: /history
\* analyses.slice(-5)
HistoryLimit == 5

Reverse(s) == [i \in 1..Len(s) |-> s[Len(s) + 1 - i]]

\* Variant: the five oldest, analyses.slice(0, 5).reverse()
recentAnalysesOldest(analyses) ==
    LET n == Len(analyses)
    IN  Reverse(SubSeq(analyses, 1, IF n > HistoryLimit THEN HistoryLimit ELSE n))

\* analyses.slice(-5).reverse()
recentAnalyses(analyses) ==
    LET n == Len(analyses)
        from == IF n > HistoryLimit THEN n - HistoryLimit + 1 ELSE 1
    IN  Reverse(SubSeq(analyses, from, n))

\* The callback of /history up to its first awaited send.
HistoryCallback(c) ==
    LET analyses == getUserAnalysisHistory(c)
    IN  [Idle EXCEPT !.kind = "history", !.chat = c,
                     !.listing = IF Len(analyses) = 0 THEN <<>>
                                 ELSE recentAnalyses(analyses),
                     !.pc = IF Len(analyses) = 0 THEN "nohistory"
                            ELSE "history"]

HistoryCommand(c) ==
    /\ Start(HistoryCallback(c))
    /\ UNCHANGED <<currentChatId, userSessions, clock, tasks>>

\* A send of /history returned: the "no analyses yet" reply, the Markdown
\* listing, or the plain-text listing sent when Markdown was rejected.
HistoryDone(p, ok) ==
    /\ proc[p].pc \in {"nohistory", "history", "historyplain"}
    /\ LET mode == CASE proc[p].pc = "nohistory" -> "none"
                     [] proc[p].pc = "history" -> "Markdown"
                     [] proc[p].pc = "historyplain" -> "stripped"
           next == IF ok THEN "done"
                   ELSE IF proc[p].pc = "history" THEN "historyplain"
                   ELSE "herror"
       IN  proc' = [proc EXCEPT ![p].pc = next,
                                ![p].sent = Sent(p, Message(proc[p].pc, proc[p].chat, mode, <<>>, ok))]
    /\ UNCHANGED <<currentChatId, userSessions, clock, tasks, nprocs>>

\* ------------------------------- telegram-bot.ts: one update, all callbacks
StartName == <<"s","t","a","r","t">>
HelpName == <<"h","e","l","p">>
HistoryName == <<"h","i","s","t","o","r","y">>

\* regexp.exec(text) of /\/name/ finds a match: the literal occurs somewhere.
Occurs(text, name) == \E i \in 1..Len(text) : LitAt(text, i, <<"/">> \o name)

\* The callbacks the library calls for a text message, in the order of their
\* registration (lines 44, 53, 62, 114, 141): the bot is created without
\* onlyFirstMatch, so every expression that matches has its callback called,
\* each up to its first awaited send.
Callbacks(c, text) ==
    (IF Occurs(text, StartName) THEN <<StartCallback(c)>> ELSE <<>>)
    \o (IF Occurs(text, HelpName) THEN <<HelpCallback(c)>> ELSE <<>>)
    \o (IF OnText(text, CheckName).matched THEN <<CheckCallback(c, text)>> ELSE <<>>)
    \o (IF OnText(text, ReportName).matched THEN <<ReportCallback(c, text)>> ELSE <<>>)
    \o (IF Occurs(text, HistoryName) THEN <<HistoryCallback(c)>> ELSE <<>>)

\* A message whose text starts with "/" arrives: the 'message' handler
\* returns at once (lines 182-184) and the onText callbacks start.
TextMessage(c, text) ==
    /\ Head(text) = "/"
    /\ LET recs == Callbacks(c, text)
           n == Len(recs)
       IN  /\ n >= 1
           /\ nprocs + n \in Procs
           /\ proc' = [p \in Procs |->
                          IF p \in (nprocs + 1)..(nprocs + n)
                          THEN [recs[p - nprocs] EXCEPT !.arrival = nprocs + 1]
                          ELSE proc[p]]
           /\ nprocs' = nprocs + n
    /\ UNCHANGED <<currentChatId, userSessions, clock, tasks>>

\* ------------------------- index.ts: the sendTelegramMessage capability
ReportTexts == { <<"*","*","o","k","*","*">> }

\* The tasks assigned to this agent: the delivery tasks of the workflows.
DeliveryTasks == {t \in tasks : t.assignee = "AGENT"}

\* The platform runs the capability for delivery task t, or (t = Null) for
\* no task of this process: lines 83-93 up to the awaited formatted send.
sendTelegramMessage(t, content) ==
    /\ LET chatId == getCurrentChatId
           rec == [Idle EXCEPT !.kind = "capability", !.task = t, !.content = content]
       IN  IF chatId = Null
           THEN Start([rec EXCEPT !.pc = "done", !.result = "No chat ID available"])
           ELSE Start([rec EXCEPT !.pc = "formatted", !.target = chatId])
    /\ UNCHANGED <<currentChatId, userSessions, clock, tasks>>

\* Variant: the fallback send asks for the pointer again.
FallbackTargetReread(p) == getCurrentChatId

\* The chat of both sends: the constant chatId of line 84.
FallbackTarget(p) == proc[p].target

\* The MarkdownV2 send returned.
FormattedDone(p, ok) ==
    /\ proc[p].pc = "formatted"
    /\ LET msg == Message("report", proc[p].target, "MarkdownV2",
                          convertToTelegramMarkdown(proc[p].content), ok)
       IN  proc' = [proc EXCEPT ![p].sent = Sent(p, msg),
                                ![p].pc = IF ok THEN "done" ELSE "fallback",
                                ![p].result = IF ok THEN "Message sent successfully" ELSE @]
    /\ UNCHANGED <<currentChatId, userSessions, clock, tasks, nprocs>>

\* The text of the fallback send: args.content as it came.
FallbackText(content) == content

\* The plain-text send returned.
FallbackDone(p, ok) ==
    /\ proc[p].pc = "fallback"
    /\ LET msg == Message("report", FallbackTarget(p), "plain",
                          FallbackText(proc[p].content), ok)
       IN  proc' = [proc EXCEPT ![p].sent = Sent(p, msg),
                                ![p].pc = "done",
                                ![p].result = IF ok THEN "Message sent as plain text"
                                              ELSE "Failed to send message"]
    /\ UNCHANGED <<currentChatId, userSessions, clock, tasks, nprocs>>

\* ------------------------------------------------------ specifications
\* An awaited remote call of some invocation returns or fails.
Resume ==
    \/ \E p \in Procs, ok \in BOOLEAN : UsageDone(p, ok)
    \/ \E p \in Procs, ok \in BOOLEAN : CheckingDone(p, ok)
    \/ \E p \in Procs, ok \in BOOLEAN : AckDone(p, ok)
    \/ \E p \in Procs, ok \in BOOLEAN : CreateTaskDone(p, ok)
    \/ \E p \in Procs, ok \in BOOLEAN : HandlerErrorDone(p, ok)
    \/ \E p \in Procs, ok \in BOOLEAN : DeleteDone(p, ok)
    \/ \E p \in Procs, ok \in BOOLEAN : WarnDone(p, ok)
    \/ \E p \in Procs, ok \in BOOLEAN : ReplyDone(p, ok)
    \/ \E p \in Procs, ok \in BOOLEAN : ThanksDone(p, ok)
    \/ \E p \in Procs, ok \in BOOLEAN : HistoryDone(p, ok)
    \/ \E p \in Procs, ok \in BOOLEAN : FormattedDone(p, ok)
    \/ \E p \in Procs, ok \in BOOLEAN : FallbackDone(p, ok)

TaskIds == {t.id : t \in DeliveryTasks} \cup {Null}

\* An inbound chat message or a capability call starts an invocation.
Arrive ==
    \/ \E c \in NextChats, text \in CheckTexts : CheckCommand(c, text)
    \/ \E c \in NextChats, text \in ForwardTexts, forwarded \in BOOLEAN :
           MessageEvent(c, text, forwarded)
    \/ \E c \in NextChats : StartCommand(c)
    \/ \E c \in NextChats : HelpCommand(c)
    \/ \E c \in NextChats, text \in ReportCommandTexts : ReportCommand(c, text)
    \/ \E c \in NextChats : HistoryCommand(c)
    \/ \E t \in TaskIds, content \in ReportTexts : sendTelegramMessage(t, content)

\* Every handler and the capability, MaxProcs invocations in all.
Next ==
    \/ nprocs < MaxProcs /\ Arrive
    \/ Resume

Spec == Init /\ [][Next]_vars

Kinds(kind) == {p \in Started : proc[p].kind = kind}

\* /check for a URL from up to MaxChecks invocations and the capability
\* from up to MaxCalls.
NextDelivery ==
    \/ /\ Cardinality(Kinds("check")) < MaxChecks
       /\ \E c \in NextChats : CheckCommand(c, CommandText(CheckName, UrlText))
    \/ /\ Cardinality(Kinds("capability")) < MaxCalls
       /\ \E t \in TaskIds, content \in ReportTexts : sendTelegramMessage(t, content)
    \/ \E p \in Procs, ok \in BOOLEAN : CheckingDone(p, ok)
    \/ \E p \in Procs, ok \in BOOLEAN : AckDone(p, ok)
    \/ \E p \in Procs, ok \in BOOLEAN : CreateTaskDone(p, ok)
    \/ \E p \in Procs, ok \in BOOLEAN : HandlerErrorDone(p, ok)
    \/ \E p \in Procs, ok \in BOOLEAN : DeleteDone(p, ok)
    \/ \E p \in Procs, ok \in BOOLEAN : FormattedDone(p, ok)
    \/ \E p \in Procs, ok \in BOOLEAN : FallbackDone(p, ok)

SpecDelivery == Init /\ [][NextDelivery]_vars

\* The chats of n earlier requests, in the order of the requests: the k-th
\* distinct chat is named k.
RequestOrders(n) ==
    {order \in [1..n -> Chats] :
        \A i \in 1..n : \A c \in 1..(order[i] - 1) : \E j \in 1..(i - 1) : order[j] = c}

\* The session map after the forwarded messages of order have been
\* recorded one after the other, the i-th at time i with request id i.
RECURSIVE SessionsRecorded(_, _)
SessionsRecorded(order, n) ==
    IF n = 0 THEN << >>
    ELSE SessionsAfterUpdate(SessionsRecorded(order, n - 1), order[n],
                             [id |-> n, type |-> "message", content |-> PlainText], n)

\* The process after up to MaxRecorded forwarded messages were handled to
\* the end while the platform refused every task: the sessions and the
\* pointer are what those handlers left, and no task exists.
InitHistory ==
    \E n \in 0..MaxRecorded : \E order \in RequestOrders(n) :
        /\ currentChatId = (IF n = 0 THEN Null ELSE setCurrentChatId(order[n]))
        /\ userSessions = SessionsRecorded(order, n)
        /\ clock = n + 1
        /\ tasks = {}
        /\ proc = [p \in Procs |-> Idle]
        /\ nprocs = 0

\* From there up to MaxRequests invocations: /history and forwarded messages.
NextHistory ==
    \/ /\ nprocs < MaxRequests
       /\ \E c \in Chats : HistoryCommand(c)
    \/ /\ nprocs < MaxRequests
       /\ \E c \in Chats : MessageEvent(c, PlainText, TRUE)
    \/ \E p \in Procs, ok \in BOOLEAN : HistoryDone(p, ok)
    \/ \E p \in Procs, ok \in BOOLEAN : CreateTaskDone(p, ok)
    \/ \E p \in Procs, ok \in BOOLEAN : HandlerErrorDone(p, ok)

SpecHistory == InitHistory /\ [][NextHistory]_vars

\* Arguments of /check around the borders of isUrl and isEthereumAddress.
SchemeText == <<"a",":","b">>
NoHostText == <<"h","t","t","p",":","/","/">>
SpaceHostText == <<"h","t","t","p",":","/","/","a"," ","b">>
UpperTokenText == <<"0","x">> \o Rep("A", 40)
BadTokenText == <<"0","x">> \o Rep("a", 39) \o <<"g">>
CapsPrefixText == <<"0","X">> \o Rep("a", 40)
LongTokenText == <<"0","x">> \o Rep("a", 41)

ClassifyTexts ==
    {UrlText, TokenText, PlainText, ShortHexText, SchemeText, NoHostText,
     SpaceHostText, UpperTokenText, BadTokenText, CapsPrefixText, LongTokenText}

\* /check with each of these arguments, MaxClassified invocations in all.
NextClassify ==
    \/ /\ nprocs < MaxClassified
       /\ \E c \in NextChats, arg \in ClassifyTexts :
              CheckCommand(c, CommandText(CheckName, arg))
    \/ \E p \in Procs, ok \in BOOLEAN : CheckingDone(p, ok)
    \/ \E p \in Procs, ok \in BOOLEAN : AckDone(p, ok)
    \/ \E p \in Procs, ok \in BOOLEAN : CreateTaskDone(p, ok)
    \/ \E p \in Procs, ok \in BOOLEAN : HandlerErrorDone(p, ok)
    \/ \E p \in Procs, ok \in BOOLEAN : DeleteDone(p, ok)

SpecClassify == Init /\ [][NextClassify]_vars

\* The awaited remote call of invocation p returns or fails.
ResumeOf(p) ==
    \E ok \in BOOLEAN :
        \/ UsageDone(p, ok)
        \/ CheckingDone(p, ok)
        \/ AckDone(p, ok)
        \/ CreateTaskDone(p, ok)
        \/ HandlerErrorDone(p, ok)
        \/ DeleteDone(p, ok)
        \/ WarnDone(p, ok)
        \/ ReplyDone(p, ok)
        \/ ThanksDone(p, ok)
        \/ HistoryDone(p, ok)
        \/ FormattedDone(p, ok)
        \/ FallbackDone(p, ok)

\* Up to MaxChecks /check commands and the awaited calls of their handlers.
NextChecking ==
    \/ /\ Cardinality(Kinds("check")) < MaxChecks
       /\ \E c \in NextChats, text \in CheckTexts : CheckCommand(c, text)
    \/ \E p \in Procs, ok \in BOOLEAN : UsageDone(p, ok)
    \/ \E p \in Procs, ok \in BOOLEAN : CheckingDone(p, ok)
    \/ \E p \in Procs, ok \in BOOLEAN : AckDone(p, ok)
    \/ \E p \in Procs, ok \in BOOLEAN : CreateTaskDone(p, ok)
    \/ \E p \in Procs, ok \in BOOLEAN : HandlerErrorDone(p, ok)
    \/ \E p \in Procs, ok \in BOOLEAN : DeleteDone(p, ok)

\* The /check handlers under the assumption that every awaited remote call
\* eventually returns or fails: a promise that is pending is settled.
FairSpec ==
    /\ Init
    /\ [][NextChecking]_vars
    /\ \A p \in Procs : WF_vars(ResumeOf(p))

\* /check for a URL, and for URLs whose path is the name of a command.
DispatchTexts ==
    {CommandText(CheckName, UrlText)}
    \cup {CommandText(CheckName, UrlText \o <<"/">> \o name) :
              name \in {StartName, HelpName, HistoryName}}

MaxUpdates == 2

\* The updates that have arrived.
Updates == {proc[p].arrival : p \in Started}

\* Up to MaxUpdates command messages of one chat and the handlers they start.
NextDispatch ==
    \/ /\ Cardinality(Updates) < MaxUpdates
       /\ \E text \in DispatchTexts : TextMessage(1, text)
    \/ \E p \in Procs, ok \in BOOLEAN : CheckingDone(p, ok)
    \/ \E p \in Procs, ok \in BOOLEAN : AckDone(p, ok)
    \/ \E p \in Procs, ok \in BOOLEAN : CreateTaskDone(p, ok)
    \/ \E p \in Procs, ok \in BOOLEAN : HandlerErrorDone(p, ok)
    \/ \E p \in Procs, ok \in BOOLEAN : DeleteDone(p, ok)
    \/ \E p \in Procs, ok \in BOOLEAN : ReplyDone(p, ok)
    \/ \E p \in Procs, ok \in BOOLEAN : HistoryDone(p, ok)

SpecDispatch == Init /\ [][NextDispatch]_vars

\* The texts of up to n characters of an alphabet.
TextsOver(alphabet, n) == UNION {[1..k -> alphabet] : k \in 0..n}

MaxPlainLen == 7
MaxMarkLen == 4

\* Report texts for the converter: lines of letters and empty lines, and
\* short texts that also hold a backslash or a reserved character.
MarkupTexts ==
    TextsOver({"a", "\n"}, MaxPlainLen) \cup TextsOver({"a", "\n", "\\", "*"}, MaxMarkLen)

\* One request of one chat has been recorded.
InitMarkup ==
    /\ currentChatId = setCurrentChatId(1)
    /\ userSessions = SessionsRecorded(<<1>>, 1)
    /\ clock = 2
    /\ tasks = {}
    /\ proc = [p \in Procs |-> Idle]
    /\ nprocs = 0

\* The capability is called with a report text, and once more with the
\* text its formatted send carried.
NextMarkup ==
    \/ /\ nprocs = 0
       /\ \E content \in MarkupTexts : sendTelegramMessage(Null, content)
    \/ /\ nprocs = 1
       /\ proc[1].sent # <<>>
       /\ sendTelegramMessage(Null, proc[1].sent[1].body)
    \/ \E p \in Procs, ok \in BOOLEAN : FormattedDone(p, ok)
    \/ \E p \in Procs, ok \in BOOLEAN : FallbackDone(p, ok)

SpecMarkup == InitMarkup /\ [][NextMarkup]_vars

\* ------------------------------------------------------------ properties
\* The workflow function of invocation p has returned.
Returned(p) == proc[p].issued >= 1 /\ proc[p].pc \in {"delete", "done"}

\* It returned and none of its createTask calls failed.
Complete(p) == Returned(p) /\ proc[p].failed = 0

TasksOf(p) == {t \in tasks : t.by = p}

TaskWithId(id) == CHOOSE t \in tasks : t.id = id

Range(f) == {f[i] : i \in DOMAIN f}

ErrorMessages(p) ==
    {i \in 1..Len(proc[p].sent) : proc[p].sent[i].kind \in {"wferror", "herror"}}

\* The invocations that have run setCurrentChatId: the request id is
\* generated in the same uninterrupted piece.
Requested == {p \in Started : proc[p].requestId # Null}

\* C1: a URL workflow whose createTask calls all succeeded has submitted
\* exactly five tasks, in the order search, content, deep research, report,
\* delivery, with the dependency lists [], [1], [1], [2, 3], [4].
C1_UrlWorkflowShape ==
    \A p \in Started :
        (proc[p].wf = "url" /\ Complete(p)) =>
            LET c == proc[p].created
                T(k) == TaskWithId(c[k])
            IN  /\ Len(c) = 5
                /\ Cardinality(TasksOf(p)) = 5
                /\ \A k \in 1..5 : \E t \in TasksOf(p) : t.id = c[k]
                /\ <<T(1).output.name, T(2).output.name, T(3).output.name,
                     T(4).output.name, T(5).assignee>>
                    = <<"URL_SEARCH_DATA.json", "URL_CONTENT_DATA.json",
                        "URL_DEEP_RESEARCH.json", "URL_REPORT.md", "AGENT">>
                /\ T(1).dependencies = <<>>
                /\ T(2).dependencies = <<c[1]>>
                /\ T(3).dependencies = <<c[1]>>
                /\ T(4).dependencies = <<c[2], c[3]>>
                /\ T(5).dependencies = <<c[4]>>

C1_Witness ==
    \E p \in Started :
        proc[p].wf = "url" /\ Complete(p) /\ proc[p].pc = "done"

\* C2: a token workflow and a message workflow whose createTask calls all
\* succeeded have each submitted exactly five tasks: a root without
\* dependencies, two tasks that depend on the root alone, the report that
\* depends on exactly those two, the delivery that depends on the report
\* alone.
C2_TokenMessageShape ==
    \A p \in Started :
        (proc[p].wf \in {"token", "message"} /\ Complete(p)) =>
            LET c == proc[p].created
                T(k) == TaskWithId(c[k])
            IN  /\ Len(c) = 5
                /\ Cardinality(TasksOf(p)) = 5
                /\ Cardinality(Range(c)) = 5
                /\ \A k \in 1..5 : \E t \in TasksOf(p) : t.id = c[k]
                /\ T(1).dependencies = <<>>
                /\ T(2).dependencies = <<c[1]>>
                /\ T(3).dependencies = <<c[1]>>
                /\ Len(T(4).dependencies) = 2
                /\ Range(T(4).dependencies) = {c[2], c[3]}
                /\ T(4).output.name \in {"TOKEN_REPORT.md", "MESSAGE_REPORT.md"}
                /\ T(5).dependencies = <<c[4]>>
                /\ T(5).assignee = "AGENT"

C2_Witness ==
    \E p, q \in Started :
        /\ proc[p].wf = "token" /\ Complete(p)
        /\ proc[q].wf = "message" /\ Complete(q)

\* C3: every id in the dependency list of a submitted task is the id of a
\* task that the same invocation submitted earlier.
C3_DependenciesEarlierSameInvocation ==
    \A t \in tasks :
        \A d \in Range(t.dependencies) :
            LET c == proc[t.by].created
            IN  \E i, j \in 1..Len(c) :
                    /\ i < j
                    /\ c[i] = d
                    /\ c[j] = t.id
                    /\ \E u \in tasks : u.id = d /\ u.by = t.by

\* Two invocations of different chats are building their workflows at the
\* same time, and one has stopped part-way after a failure.
C3_Witness ==
    \E p, q \in Started :
        /\ proc[p].chat # proc[q].chat
        /\ proc[p].failed = 4 /\ Len(proc[p].created) = 3
        /\ proc[q].pc = "task" /\ Len(proc[q].created) = 4

\* C4: when the k-th createTask call of an invocation has failed, the
\* invocation has issued no later createTask call and has handed exactly one
\* error message to the chat transport.
C4_FailureStopsAndReportsOnce ==
    \A p \in Started :
        proc[p].failed > 0 =>
            /\ proc[p].issued = proc[p].failed
            /\ proc[p].pc # "task"
            /\ \A t \in TasksOf(p) : t.stage < proc[p].failed
            /\ Cardinality(ErrorMessages(p)) = 1

C4_Witness ==
    \E p, q \in Started :
        /\ proc[p].wf = "token" /\ proc[p].failed = 2 /\ proc[p].pc = "done"
        /\ proc[q].kind = "message" /\ proc[q].failed = 5 /\ proc[q].pc = "done"

\* C5: the set of submitted tasks only grows: a step, a failed createTask
\* call included, removes and changes no submitted task.
C5_TasksOnlyGrow == [][tasks \subseteq tasks']_vars

C5_Witness ==
    \E p \in Started :
        proc[p].failed = 3 /\ Cardinality(TasksOf(p)) = 2 /\ proc[p].pc = "done"

\* C6: the capability sends a report only to a chat that has asked for an
\* analysis, but not always to the chat that asked for this one: the
\* witness is a report of chat A's workflow delivered to chat B.
C6_ReportsGoToSomeRequester ==
    \A d \in Kinds("capability") :
        \A i \in 1..Len(proc[d].sent) :
            \E q \in Requested : proc[q].chat = proc[d].sent[i].to

C6_Witness ==
    \E d \in Kinds("capability") :
        \E a, b \in Kinds("check") :
            /\ a < b /\ b < d
            /\ proc[d].task # Null
            /\ TaskWithId(proc[d].task).by = a
            /\ Complete(a)
            /\ proc[b].chat # proc[a].chat
            /\ proc[d].pc = "done"
            /\ proc[d].result = "Message sent successfully"
            /\ proc[d].sent[1].to = proc[b].chat

\* C7 (as claimed): the error message of a failed createTask call goes to
\* the chat that started the workflow.
C7_ErrorGoesToInitiator ==
    \A p \in Started :
        \A i \in 1..Len(proc[p].sent) :
            proc[p].sent[i].kind = "wferror" => proc[p].sent[i].to = proc[p].chat

\* C8: the pointer is absent exactly while no /check or forwarded-message
\* handling has run setCurrentChatId; a step changes it only by such a
\* handling running setCurrentChatId, and every such handling leaves it at
\* its own chat.
C8_PointerIsLatestRequester ==
    /\ currentChatId = Null
    /\ [][ /\ (currentChatId' = Null) <=> (Requested' = {})
           /\ \A p \in Procs :
                (proc[p].requestId = Null /\ proc'[p].requestId # Null) =>
                    /\ proc'[p].kind \in {"check", "message"}
                    /\ currentChatId' = proc'[p].chat
           /\ currentChatId' # currentChatId =>
                \E p \in Procs : proc[p].requestId = Null /\ proc'[p].requestId # Null
         ]_vars

\* Chat 1 and chat 2 have both asked, chat 2 last; the workflow of chat 2
\* has failed and its handler has ended, and the pointer is still chat 2.
C8_Witness ==
    /\ currentChatId = 2
    /\ \E p, q \in Requested : proc[p].chat = 1 /\ proc[q].chat = 2
                                  /\ proc[q].failed > 0 /\ proc[q].pc = "done"

\* C9: the capability reads the pointer once, when it starts: with no
\* pointer it ends at once with the "no chat" result and sends nothing;
\* otherwise every send of the invocation goes to the chat read then.
C9_CapabilityReadsPointerOnce ==
    [][ \A p \in Procs :
          /\ (proc[p].pc = "idle" /\ proc'[p].kind = "capability") =>
                /\ proc'[p].target = currentChatId
                /\ currentChatId = Null =>
                      /\ proc'[p].pc = "done"
                      /\ proc'[p].result = "No chat ID available"
                      /\ proc'[p].sent = <<>>
          /\ proc[p].kind = "capability" =>
                /\ proc'[p].target = proc[p].target
                /\ Len(proc'[p].sent) <= 2
                /\ \A i \in 1..Len(proc'[p].sent) :
                      proc'[p].sent[i].to = proc[p].target
      ]_vars

\* The pointer moved from chat 1 to chat 2 while the formatted send was
\* pending; both sends went to chat 1.
C9_Witness ==
    \E d \in Kinds("capability") :
        /\ proc[d].target = 1
        /\ currentChatId = 2
        /\ Len(proc[d].sent) = 2
        /\ proc[d].pc = "done"
        /\ \E b \in Requested : b > d /\ proc[b].chat = 2

\* C10 (as claimed): when the formatted send is rejected the capability
\* makes exactly one more send, of the text with the markup characters
\* "*", "_" and the backtick removed, in plain mode,
\* sends no error message, and returns a result whether or not the second
\* send succeeds.
C10_FallbackIsStripped ==
    \A d \in Kinds("capability") :
        (proc[d].pc = "done" /\ Len(proc[d].sent) >= 1 /\ ~proc[d].sent[1].ok) =>
            /\ Len(proc[d].sent) = 2
            /\ proc[d].sent[2].mode = "plain"
            /\ proc[d].sent[2].body = StripMarkup(proc[d].content)
            /\ ErrorMessages(d) = {}
            /\ proc[d].result \in {"Message sent as plain text", "Failed to send message"}

\* The handler invocations: everything but the capability.
Handlers == {p \in Started : proc[p].kind # "capability"}

\* C11 (as claimed): no handler invocation ends with an error nobody caught,
\* whichever of its sends the transport refused, and no handler sends the
\* same message a second time.
C11_EverySendFailureIsCaught ==
    \A p \in Handlers :
        /\ ~proc[p].rejected
        /\ \A i, j \in 1..Len(proc[p].sent) :
              proc[p].sent[i].kind = proc[p].sent[j].kind => i = j

\* C12 (as claimed): a /check or /report command without an argument, or
\* with blanks for one, ends with one usage hint sent to its chat, without a
\* request id (so without setCurrentChatId and updateUserSession, which run
\* in the same piece) and without a task.
C12_BlankArgumentGetsUsageHint ==
    \A p \in Kinds("check") \cup Kinds("report") :
        (proc[p].content = <<>> /\ proc[p].pc \in {"done", "skipped"}) =>
            /\ Len(proc[p].sent) = 1
            /\ proc[p].sent[1].kind = "usage"
            /\ proc[p].sent[1].to = proc[p].chat
            /\ proc[p].requestId = Null
            /\ TasksOf(p) = {}

\* C13: the listing of a /history invocation holds the min(5, n) newest of
\* the n analyses recorded for its chat when it started, newest first; with
\* n = 0 it lists nothing and sends the "no analyses yet" reply, and with
\* n > 0 it never sends that reply.
C13_HistoryListsNewestFive ==
    [][ \A p \in Procs :
          (proc[p].pc = "idle" /\ proc'[p].kind = "history") =>
              LET analyses == getUserAnalysisHistory(proc'[p].chat)
                  n == Len(analyses)
                  listing == proc'[p].listing
              IN  /\ Len(listing) = (IF n < 5 THEN n ELSE 5)
                  /\ \A i \in 1..Len(listing) : listing[i] = analyses[n + 1 - i]
                  /\ (n = 0) <=> (proc'[p].pc = "nohistory")
      ]_vars

\* A chat with six recorded analyses got the five newest, newest first, and
\* a chat without any got the reply.
C13_Witness ==
    \E p, q \in Kinds("history") :
        /\ Len(getUserAnalysisHistory(proc[p].chat)) = 6
        /\ Len(proc[p].listing) = 5
        /\ proc[p].listing[1].timestamp > proc[p].listing[5].timestamp
        /\ proc[p].pc = "done"
        /\ getUserAnalysisHistory(proc[q].chat) = <<>>
        /\ proc[q].pc = "done"
        /\ proc[q].sent[1].kind = "nohistory"

IsPrefix(s, t) == Len(s) <= Len(t) /\ SubSeq(t, 1, Len(s)) = s

\* The invocations of chat c that run updateUserSession in this step: the
\* request id is generated in the same uninterrupted piece.
Recording(c) ==
    {p \in Procs : /\ proc[p].requestId = Null
                   /\ proc'[p].requestId # Null
                   /\ proc'[p].chat = c}

\* The entry updateUserSession appends for invocation p in this step.
EntryOf(p) ==
    [id |-> proc'[p].requestId, type |-> proc'[p].wf,
     content |-> proc'[p].content, timestamp |-> clock]

\* C14: in every step and for every chat, what getUserAnalysisHistory
\* returned before is a prefix of what it returns after; a step in which a
\* check of the chat is recorded appends exactly the one entry of that check
\* at the end, also when its id and content are those of an earlier entry;
\* every other step, /history included, leaves the sequence as it was.
C14_AnalysesAppendOnly ==
    [][ \A c \in Chats :
          LET old == getUserAnalysisHistory(c)
              new == getUserAnalysisHistory(c)'
          IN  /\ IsPrefix(old, new)
              /\ Len(new) = Len(old) + Cardinality(Recording(c))
              /\ \A p \in Recording(c) : new = Append(old, EntryOf(p))
      ]_vars

\* A chat with six recorded analyses records a seventh with the id and the
\* content of its first, and a later /history lists it first.
C14_Witness ==
    \E p \in Kinds("message") : \E q \in Kinds("history") :
        LET analyses == getUserAnalysisHistory(proc[p].chat)
        IN  /\ Len(analyses) = 7
            /\ analyses[7].id = analyses[1].id
            /\ analyses[7].content = analyses[1].content
            /\ analyses[7].id = proc[p].requestId
            /\ p < q
            /\ proc[q].chat = proc[p].chat
            /\ proc[q].pc = "done"
            /\ proc[q].listing[1] = analyses[7]

\* C15: a step changes the recorded history of a chat only by appending the
\* entry of an invocation of that chat that is recorded in the step, and
\* after every step each chat's history has one entry per recorded
\* invocation of the chat, in the order of recording.
C15_HistoriesAreIsolated ==
    [][ \A c \in Chats :
          LET old == getUserAnalysisHistory(c)
              new == getUserAnalysisHistory(c)'
          IN  /\ Recording(c) = {} => new = old
              /\ \A p \in Recording(c) : new = Append(old, EntryOf(p))
              /\ Len(new) = Cardinality({p \in Requested' : proc'[p].chat = c})
              /\ \A i, j \in 1..Len(new) : i < j => new[i].timestamp < new[j].timestamp
      ]_vars

\* Chat 1 and chat 2 were recorded while the other's handler was waiting
\* for a remote call, and each history holds exactly its own analysis.
C15_Witness ==
    \E p, q \in Requested :
        /\ p < q
        /\ proc[p].chat = 1 /\ proc[q].chat = 2
        /\ proc[p].pc = "task" /\ proc[q].pc = "task"
        /\ Len(proc[p].created) = 2 /\ Len(proc[q].created) = 2
        /\ Len(getUserAnalysisHistory(1)) = 1
        /\ Len(getUserAnalysisHistory(2)) = 1
        /\ getUserAnalysisHistory(1)[1].id = proc[p].requestId
        /\ getUserAnalysisHistory(2)[1].id = proc[q].requestId
        /\ getUserAnalysisHistory(1)[1].content = proc[p].content
        /\ getUserAnalysisHistory(2)[1].content = proc[q].content

\* The invocations whose acknowledgment send has returned without error:
\* their next statement is the call of the workflow function.
Acknowledged ==
    {p \in Kinds("check") :
        \E i \in 1..Len(proc[p].sent) : proc[p].sent[i].kind = "ack" /\ proc[p].sent[i].ok}

\* C16: a /check invocation that has classified its argument has recorded
\* a session entry with its request id and its argument, whose type is
\* "url" if the argument parses as a URL, else "token" if it is 0x and 40
\* hexadecimal digits, else "message"; the
\* workflow it starts once the acknowledgment is sent is the one of that
\* type, and every task it submits belongs to that workflow.
C16_ClassificationDecidesWorkflow ==
    \A p \in Kinds("check") :
        proc[p].requestId # Null =>
            LET content == proc[p].content
                expected == IF isUrl(content) THEN "url"
                            ELSE IF isEthereumAddress(content) THEN "token"
                            ELSE "message"
                analyses == getUserAnalysisHistory(proc[p].chat)
            IN  /\ content # <<>>
                /\ proc[p].wf = expected
                /\ \E i \in 1..Len(analyses) :
                      /\ analyses[i].id = proc[p].requestId
                      /\ analyses[i].content = content
                      /\ analyses[i].type = expected
                /\ \A i \in 1..Len(analyses) :
                      analyses[i].content = content => analyses[i].type = expected
                /\ p \in Acknowledged <=> proc[p].issued >= 1
                /\ \A t \in TasksOf(p) :
                      /\ t.workflow = expected
                      /\ t.assignee = WorkflowTasks(expected)[t.stage].assignee

\* The address in capitals went to the token workflow, all five tasks
\* submitted.
C16_Witness ==
    \E p \in Kinds("check") :
        /\ proc[p].content = UpperTokenText
        /\ proc[p].wf = "token"
        /\ Complete(p)
        /\ proc[p].pc = "done"
        /\ getUserAnalysisHistory(proc[p].chat)[1].type = "token"

\* The warning send of invocation p has returned without error.
Warned(p) ==
    /\ Len(proc[p].sent) >= 1
    /\ proc[p].sent[1].kind = "warning"
    /\ proc[p].sent[1].ok

\* C17: a forwarded message whose scan matched has its warning sent, and
\* the send returned, before it sets the pointer and before its first
\* createTask call, and it does both once the warning is out; a forwarded
\* message whose scan did not match does both at once.  Every task of a
\* forwarded message is a task of the message workflow with the context
\* note "Forwarded message".  A message that was not forwarded ends at once:
\* the step leaves the pointer, the sessions and the tasks as they were.
C17_WarningThenForwardedWorkflow ==
    [][ \A p \in Procs :
          proc'[p].kind = "message" =>
              LET matched == containsScamPatterns(proc'[p].content).containsPatterns
                  began == proc'[p].requestId # Null
              IN  IF proc'[p].forwarded
                  THEN /\ (began /\ matched) => Warned(p)'
                       /\ (~began) => (proc'[p].issued = 0 /\ TasksOf(p)' = {})
                       /\ (~matched \/ Warned(p)') => began
                       /\ began =>
                             /\ proc'[p].wf = "message"
                             /\ proc'[p].contextInfo = "Forwarded message"
                             /\ proc'[p].issued >= 1
                       /\ \A t \in TasksOf(p)' :
                             /\ t.workflow = "message"
                             /\ t.contextInfo = "Forwarded message"
                       /\ (proc[p].requestId = Null /\ began) =>
                             /\ currentChatId' = proc'[p].chat
                             /\ TasksOf(p) = {}
                  ELSE /\ proc'[p].pc = "done"
                       /\ ~began
                       /\ proc'[p].sent = <<>>
                       /\ proc'[p].issued = 0
                       /\ proc[p].pc = "idle" =>
                             UNCHANGED <<currentChatId, userSessions, tasks>>
      ]_vars

\* A forwarded message with a scam pattern got its warning and then all
\* five tasks of the message workflow; a later message of another chat that
\* was not forwarded left the pointer at the first chat.
C17_Witness ==
    \E p, q \in Kinds("message") :
        /\ p < q
        /\ proc[p].forwarded /\ proc[p].content = ScamText
        /\ Warned(p)
        /\ Complete(p) /\ Len(proc[p].created) = 5
        /\ \A t \in TasksOf(p) : t.contextInfo = "Forwarded message"
        /\ ~proc[q].forwarded
        /\ proc[q].chat # proc[p].chat
        /\ currentChatId = proc[p].chat
        /\ proc[q].chat \notin DOMAIN userSessions

\* C18 (as claimed): a forwarded message whose handler has ended without a
\* failed createTask call has submitted the five tasks of the message
\* workflow, whether or not the scan matched and whether or not the warning
\* send succeeded.
C18_ScanNeverBlocksWorkflow ==
    \A p \in Kinds("message") :
        (proc[p].forwarded /\ proc[p].pc = "done" /\ proc[p].failed = 0) =>
            /\ Len(proc[p].created) = 5
            /\ Cardinality(TasksOf(p)) = 5
            /\ \A t \in TasksOf(p) :
                  t.assignee = MessageWorkflowTasks[t.stage].assignee

\* C19 (as claimed): no two requests have the same request id, and no two
\* tasks of different invocations name the same artifact as their output.
C19_RequestIdsUnique ==
    /\ \A p, q \in Requested : p # q => proc[p].requestId # proc[q].requestId
    /\ \A t, u \in tasks :
          (t.by # u.by /\ t.output.name # "none") => t.output # u.output

\* The tasks whose ids are in the dependency list of t.
DirectDependencies(t) == {u \in tasks : u.id \in Range(t.dependencies)}

\* S and the tasks reached from S over at most n dependency edges.
RECURSIVE WithDependencies(_, _)
WithDependencies(S, n) ==
    IF n = 0 THEN S
    ELSE WithDependencies(S \cup UNION {DirectDependencies(u) : u \in S}, n - 1)

\* The direct and transitive dependencies of t.
Upstream(t) == WithDependencies(DirectDependencies(t), Len(UrlWorkflowTasks))

\* C20: every artifact a submitted task is told to read carries the request
\* id of the task's own invocation and is the expected output of a task of
\* the same invocation among its direct or transitive dependencies.
C20_ReadsComeFromUpstream ==
    \A t \in tasks :
        \A r \in t.reads :
            /\ r.id = proc[t.by].requestId
            /\ \E u \in Upstream(t) : u.by = t.by /\ u.output = r

\* A URL workflow and a message workflow are complete: the URL report reads
\* the search data of task 1, which it reaches only through tasks 2 and 3.
C20_Witness ==
    \E p, q \in Started :
        /\ proc[p].wf = "url" /\ Complete(p)
        /\ proc[q].wf = "message" /\ Complete(q)
        /\ \E t \in TasksOf(p) :
              /\ t.stage = 4
              /\ [id |-> proc[p].requestId, name |-> "URL_SEARCH_DATA.json"] \in t.reads
              /\ proc[p].created[1] \notin Range(t.dependencies)
        /\ \E t \in TasksOf(q) : t.stage = 3 /\ t.reads # {}

\* ---------------------------------------------------------------- C21
\* C21: nothing is retried.  The createTask calls an invocation has issued
\* are the stages 1, 2, ..., n of its workflow in that order, each once and
\* at most five of them; once a call has failed it is the last call the
\* invocation ever issues, whatever its handler does afterwards.
C21_NoCallIsRetried ==
    \A p \in Started :
        LET calls == proc[p].calls
        IN  /\ Len(calls) <= 5
            /\ \A i \in 1..Len(calls) : calls[i] = i
            /\ Len(calls) > 0 => Len(calls) <= Len(WorkflowTasks(proc[p].wf))
            /\ Len(calls) = Len(proc[p].created)
                   + (IF proc[p].pc = "task" \/ proc[p].failed # 0 THEN 1 ELSE 0)
            /\ proc[p].failed # 0 =>
                   /\ proc[p].failed = Len(calls)
                   /\ proc[p].pc # "task"

\* An invocation whose third call failed has finished, with three calls in all.
C21_Witness ==
    \E p \in Started :
        /\ proc[p].failed = 3
        /\ proc[p].pc = "done"
        /\ proc[p].calls = <<1, 2, 3>>
        /\ Len(proc[p].created) = 2

\* ---------------------------------------------------------------- C22
\* C22: a /report command with a non-empty argument only acknowledges.
\* Every step of its handler leaves the session map, the active-chat
\* pointer and the tasks as they are; the handler issues no createTask call
\* and draws no request id; the first message it sends is the one
\* acknowledgment, to the reporting chat, and the only other message it can
\* send is the error message after that acknowledgment was rejected.
C22_ReportOnlyAcknowledges ==
    [][\A p \in Procs :
          (/\ proc'[p] # proc[p]
           /\ proc'[p].kind = "report"
           /\ proc'[p].content # <<>>) =>
              LET sent == proc'[p].sent
                  thanks == {i \in 1..Len(sent) : sent[i].kind = "thanks"}
              IN  /\ UNCHANGED <<currentChatId, userSessions, tasks>>
                  /\ proc'[p].calls = <<>>
                  /\ proc'[p].requestId = Null
                  /\ TasksOf(p)' = {}
                  /\ \A i \in 1..Len(sent) : sent[i].to = proc'[p].chat
                  /\ thanks = IF proc'[p].pc = "thanks" THEN {} ELSE {1}
                  /\ \A i \in 1..Len(sent) : i > 1 =>
                         /\ sent[i].kind = "herror"
                         /\ ~sent[1].ok
                  /\ Len(sent) <= 2]_vars

\* A report was acknowledged while another chat is the active chat and has
\* the only session.
C22_Witness ==
    \E p \in Started :
        /\ proc[p].kind = "report"
        /\ proc[p].content = UrlText
        /\ proc[p].pc = "done"
        /\ proc[p].sent = <<Message("thanks", proc[p].chat, "none", <<>>, TRUE)>>
        /\ currentChatId \notin {Null, proc[p].chat}
        /\ getUserAnalysisHistory(proc[p].chat) = <<>>
        /\ getUserAnalysisHistory(currentChatId) # <<>>

\* ---------------------------------------------------------------- C23
\* The text s without every newline that follows two newlines: each run of
\* three or more newlines is left with exactly two.
SqueezedNewlines(s) ==
    LET Kept(i) == ~(i >= 3 /\ s[i] = "\n" /\ s[i - 1] = "\n" /\ s[i - 2] = "\n")
        kept == SelectSeq([i \in 1..Len(s) |-> i], Kept)
    IN  [j \in 1..Len(kept) |-> s[kept[j]]]

\* C23: for a report text without reserved characters the formatted send
\* carries the text with every run of three or more newlines replaced by
\* two newlines and nothing else changed, and a capability call given that
\* output carries it unchanged.
C23_PlainTextOnlyLosesNewlines ==
    \A p \in Kinds("capability") :
        (/\ proc[p].sent # <<>>
         /\ \A i \in 1..Len(proc[p].content) : proc[p].content[i] \notin Reserved) =>
            LET out == proc[p].sent[1].body
            IN  /\ proc[p].sent[1].mode = "MarkdownV2"
                /\ out = SqueezedNewlines(proc[p].content)
                /\ \A q \in Kinds("capability") :
                       (proc[q].content = out /\ proc[q].sent # <<>>) =>
                           proc[q].sent[1].body = out

\* A text with two runs of three newlines was sent with two runs of two, and
\* the output was sent again as it was.
C23_Witness ==
    \E p, q \in Kinds("capability") :
        /\ p # q
        /\ proc[p].content = <<"\n", "\n", "\n", "a", "\n", "\n", "\n">>
        /\ proc[p].sent # <<>>
        /\ proc[p].sent[1].body = <<"\n", "\n", "a", "\n", "\n">>
        /\ proc[q].content = proc[p].sent[1].body
        /\ proc[q].sent # <<>>
        /\ proc[q].sent[1].body = proc[q].content

\* ---------------------------------------------------------------- C24
\* C24: an inbound message has the effect of at most one command.  The
\* invocations that one update starts are at most one; in particular no
\* welcome, help or history handler runs for an update that started the
\* /check handler.
C24_OneCommandPerMessage ==
    \A p, q \in Started :
        (proc[p].arrival = proc[q].arrival /\ proc[p].kind = "check") => p = q

\* ---------------------------------------------------------------- C25
\* The request of invocation p has an entry in the history of its chat.
Listed(p) ==
    \E i \in 1..Len(getUserAnalysisHistory(proc[p].chat)) :
        /\ getUserAnalysisHistory(proc[p].chat)[i].id = proc[p].requestId
        /\ getUserAnalysisHistory(proc[p].chat)[i].content = proc[p].content

\* C25: the step of a /check or forwarded-message invocation that records
\* its session entry also leaves the pointer at its chat, and comes before
\* any createTask call of the invocation has returned: no call was issued
\* before it and no task of the invocation exists after it.  From then on
\* the entry stays recorded in every step, whether the acknowledgment or a
\* createTask call fails or not.
C25_EntryRecordedFirstAndKept ==
    [][\A p \in Procs :
          /\ proc[p].requestId = Null =>
                 /\ proc[p].calls = <<>>
                 /\ TasksOf(p) = {}
          /\ (proc[p].requestId = Null /\ proc'[p].requestId # Null) =>
                 /\ currentChatId' = proc'[p].chat
                 /\ Listed(p)'
                 /\ TasksOf(p)' = {}
                 /\ proc'[p].created = <<>>
                 /\ Len(proc'[p].calls) <= 1
          /\ proc[p].requestId # Null =>
                 /\ proc'[p].requestId = proc[p].requestId
                 /\ Listed(p) /\ Listed(p)']_vars

\* /history lists a request whose acknowledgment was rejected and for which
\* no createTask call was ever made.
C25_Witness ==
    \E p \in Kinds("check"), q \in Kinds("history") :
        /\ proc[p].pc = "done"
        /\ proc[p].requestId # Null
        /\ proc[p].calls = <<>>
        /\ TasksOf(p) = {}
        /\ \E i \in 1..Len(proc[p].sent) : proc[p].sent[i].kind = "ack" /\ ~proc[p].sent[i].ok
        /\ q > p
        /\ proc[q].chat = proc[p].chat
        /\ proc[q].pc = "done"
        /\ \E i \in 1..Len(proc[q].listing) : proc[q].listing[i].id = proc[p].requestId
        /\ proc[q].sent[1].ok

\* ---------------------------------------------------------------- C26
\* The /check invocations whose "checking" message was sent.
PastChecking == {p \in Kinds("check") : proc[p].requestId # Null}

\* C26: if every awaited remote call eventually returns or fails, every
\* /check invocation that got past the "checking" send eventually finishes
\* having attempted the delete of that message exactly once.  The delete
\* is attempted at most once, only as the last awaited call (the step to
\* "done" comes from the pending delete), and whether the workflow was
\* submitted completely, failed part-way or the handler's catch block ran.
\* No step of the capability is needed for it.
C26_CheckEndsWithOneDelete ==
    /\ [](\A p \in PastChecking :
             /\ proc[p].deletes <= 1
             /\ proc[p].deletes = 1 <=> proc[p].pc \in {"delete", "done"})
    /\ [][\A p \in Procs :
             (p \in PastChecking /\ proc[p].pc # "done" /\ proc'[p].pc = "done") =>
                 (proc[p].pc = "delete" /\ proc'[p].deletes = 1)]_vars
    /\ \A p \in Procs :
           (p \in PastChecking) ~> (proc[p].pc = "done" /\ proc[p].deletes = 1)

\* Two finished checks with one delete each: one whose second createTask
\* call failed and one whose handler's catch block ran.
C26_Witness ==
    \E p \in PastChecking :
        /\ proc[p].pc = "done"
        /\ proc[p].deletes = 1
        /\ proc[p].failed = 2
        /\ \E q \in PastChecking :
               /\ proc[q].pc = "done"
               /\ proc[q].deletes = 1
               /\ \E i \in 1..Len(proc[q].sent) : proc[q].sent[i].kind = "herror"

====
